---------------------------- MODULE Spec2Model ----------------------------
(***************************************************************************)
(* A model of fastwebp (src/app.py): the mode normaliser                   *)
(* prepare_image_for_webp, the dimension fitting, quality search and       *)
(* dimension fallback of compress_image, and create_mobile_version.        *)
(*                                                                         *)
(* Pillow and libwebp are libraries, not code of the repository.  An image *)
(* is a record of what the code reads of it (mode, info['transparency'],   *)
(* size) plus one sample pixel; an encoded buffer is a record of how it    *)
(* was produced plus its length in bytes.  The encoder's output length is  *)
(* an input: every encode picks a length, the same one for the same        *)
(* parameters.                                                             *)
(***************************************************************************)
EXTENDS Integers, Sequences, FiniteSets

(***************************************************************************)
(* Bounds of the model.                                                    *)
(***************************************************************************)
\* the input images of the pipeline are 1..MaxDim wide and high
MaxDim == 4
\* max_width and max_height are MinBound..MaxBound
MinBound == 3
MaxBound == 4
\* the ceilings are 1..MaxLowCeiling and the slider's maximum
MaxLowCeiling == 3
\* the budgets are 1..MaxTargetKB kilobytes
MaxTargetKB == 1
\* largest width/height and largest max bound of the stand-alone fitting check
MaxFitDim == 23
MaxFitBound == 16
\* a batch holds at most MaxFiles uploads
MaxFiles == 2
\* width and height of the images of the stand-alone search and fallback check
SearchDim == 10

(***************************************************************************)
(* Program constants.                                                      *)
(***************************************************************************)
\* get_image_size: len(image_bytes) / 1024
BytesPerKB == 1024
\* `current_quality > 90` selects the lossless encode
LosslessAbove == 90
\* the largest value of the "Initial Quality" slider
MaxQuality == 100
\* create_mobile_version always saves with quality 80
MobileQuality == 80
\* reduction_factor = 0.8, in tenths
FirstFactorTenths == 8
\* `reduction_factor > 0.3`, in tenths
FactorFloorTenths == 3
\* mantissa bits (less the leading one) of the IEEE doubles Python computes with
DoubleFractionBits == 52

RECURSIVE Pow2(_)
Pow2(e) == IF e <= 0 THEN 1 ELSE 2 * Pow2(e - 1)

(***************************************************************************)
(* Python float arithmetic of `int(n * (a / b))` for integers 0 < a < b    *)
(* and n >= 1, computed with integers only.                                *)
(*                                                                         *)
(* a / b is rounded to the double r = M / 2^E with 2^52 <= M < 2^53, so    *)
(* E = 52 + s for the least s with a * 2^s >= b, and the rounding error is *)
(* decided by rem = (a * 2^E) mod b: r = a/b if rem = 0, r < a/b if        *)
(* 2*rem < b, r > a/b otherwise (a tie is impossible).  When n*a/b is not  *)
(* an integer the errors are far smaller than its distance to an integer   *)
(* and int() gives floor(n*a/b).  When n*a/b is an integer q and r < a/b,  *)
(* the product n*r = q - n*rem/(b*2^E) rounds back up to q only if that    *)
(* gap is at most half the spacing of the doubles just below q; otherwise  *)
(* the product is a double below q and int() gives q - 1.                  *)
(***************************************************************************)
\* 2^e mod b, by squaring
RECURSIVE Pow2Mod(_, _)
Pow2Mod(e, b) ==
    IF e = 0 THEN 1 % b
    ELSE IF e % 2 = 1 THEN (2 * Pow2Mod(e - 1, b)) % b
    ELSE LET half == Pow2Mod(e \div 2, b) IN (half * half) % b

RECURSIVE NormShift(_, _, _)
NormShift(a, b, s) == IF a * Pow2(s) >= b THEN s ELSE NormShift(a, b, s + 1)

RECURSIVE FloorLog2(_)
FloorLog2(q) == IF q < 2 THEN 0 ELSE 1 + FloorLog2(q \div 2)

\* does the double a/b lie strictly below the rational a/b
QuotientRoundsDown(a, b) ==
    LET rem == (a * Pow2Mod(DoubleFractionBits + NormShift(a, b, 0), b)) % b
    IN  rem # 0 /\ 2 * rem < b

\* does the double product n * fl(a/b), exact value the integer q less a gap,
\* round to a double below q
ProductStaysBelow(n, a, b, q) ==
    LET s   == NormShift(a, b, 0)
        rem == (a * Pow2Mod(DoubleFractionBits + s, b)) % b
        p   == FloorLog2(q)
        k   == IF q = Pow2(p) THEN s + p - 2 ELSE s + p - 1
    IN  IF k >= 0 THEN n * rem > b * Pow2(k)
                  ELSE n * rem * Pow2(-k) > b

FloatIntMul(n, a, b) ==
    LET q == (n * a) \div b
    IN  IF (n * a) % b = 0 /\ QuotientRoundsDown(a, b) /\ ProductStaysBelow(n, a, b, q)
        THEN q - 1
        ELSE q


(***************************************************************************)
(* Images and pixels.  A pixel is its truecolor value and its alpha (255   *)
(* where the mode has none); `transparency` is the presence of the key     *)
(* 'transparency' in image.info.                                           *)
(***************************************************************************)
White == <<255, 255, 255>>

Modes == {"RGBA", "P", "L", "LA", "RGB", "CMYK"}

Colours == {<<0, 0, 0>>, <<200, 30, 30>>, White}

Alphas == {0, 128, 255}

AlphaModes == {"RGBA", "LA"}

\* the pixels an image of mode m can hold
PixelsOf(m, t) ==
    IF m \in AlphaModes \/ (m = "P" /\ t)
    THEN [rgb : Colours, a : Alphas]
    ELSE [rgb : Colours, a : {255}]

\* `image.mode in ("RGBA", "LA") or (image.mode == "P" and 'transparency' in image.info)`
HasTransparency(im) ==
    im.mode \in {"RGBA", "LA"} \/ (im.mode = "P" /\ im.transparency)

\* Pillow: the modes with an alpha band
HasAlpha(im) == im.mode \in AlphaModes

\* Pillow, paste through a mask: one channel of the pasted pixel
Blend8(dst, src, mask) ==
    LET tmp == src * mask + dst * (255 - mask) + 128
    IN  ((tmp \div 256) + tmp) \div 256

\* Image.new('RGB', image.size, (255, 255, 255)); background.paste(image, mask=image.split()[-1])
PasteOnWhite(im) ==
    [mode |-> "RGB", transparency |-> FALSE, width |-> im.width, height |-> im.height,
     px |-> [rgb |-> [c \in 1..3 |-> Blend8(White[c], im.px.rgb[c], im.px.a)],
             a |-> 255]]

\* image.convert('RGBA') / image.convert('RGB'); a conversion to RGB drops the alpha band
Convert(im, m) ==
    [mode |-> m, transparency |-> im.transparency, width |-> im.width,
     height |-> im.height,
     px |-> [rgb |-> im.px.rgb, a |-> IF m = "RGBA" THEN im.px.a ELSE 255]]

\* mutant: the palette branch forgets to flatten when transparency is not preserved
prepare_without_palette_flatten(im, preserve) ==
    IF im.mode = "RGBA"
    THEN IF preserve THEN im ELSE PasteOnWhite(im)
    ELSE IF im.mode = "P"
    THEN IF im.transparency THEN Convert(im, "RGBA") ELSE Convert(im, "RGB")
    ELSE IF im.mode \in {"L", "LA"}
    THEN IF im.mode = "LA" /\ preserve THEN Convert(im, "RGBA")
                                       ELSE Convert(im, "RGB")
    ELSE IF im.mode # "RGB" THEN Convert(im, "RGB") ELSE im

\* mutant: the grayscale branch never keeps the alpha band
prepare_without_gray_alpha(im, preserve) ==
    IF im.mode = "RGBA"
    THEN IF preserve THEN im ELSE PasteOnWhite(im)
    ELSE IF im.mode = "P"
    THEN IF im.transparency
         THEN IF preserve THEN Convert(im, "RGBA")
                          ELSE PasteOnWhite(Convert(im, "RGBA"))
         ELSE Convert(im, "RGB")
    ELSE IF im.mode \in {"L", "LA"} THEN Convert(im, "RGB")
    ELSE IF im.mode # "RGB" THEN Convert(im, "RGB") ELSE im

prepare_image_for_webp(im, preserve) ==
    IF im.mode = "RGBA"
    THEN IF preserve THEN im ELSE PasteOnWhite(im)
    ELSE IF im.mode = "P"
    THEN IF im.transparency
         THEN IF preserve THEN Convert(im, "RGBA")
                          ELSE PasteOnWhite(Convert(im, "RGBA"))
         ELSE Convert(im, "RGB")
    ELSE IF im.mode \in {"L", "LA"}
    THEN IF im.mode = "LA" /\ preserve THEN Convert(im, "RGBA")
                                       ELSE Convert(im, "RGB")
    ELSE IF im.mode # "RGB" THEN Convert(im, "RGB") ELSE im

(***************************************************************************)
(* The dimension fitting of compress_image.                                *)
(***************************************************************************)
\* `resize_ratio < 1.0`, resize_ratio = min(max_width / width, max_height / height, 1.0)
RatioBelowOne(width, height, maxw, maxh) == maxw < width \/ maxh < height

\* mutant: max() in place of min()
ResizeRatioLargest(width, height, maxw, maxh) ==
    IF maxw * height >= maxh * width THEN <<maxw, width>> ELSE <<maxh, height>>

\* the quotient that is the minimum, as <<numerator, denominator>>
ResizeRatio(width, height, maxw, maxh) ==
    IF maxw * height <= maxh * width THEN <<maxw, width>> ELSE <<maxh, height>>

\* (int(width * resize_ratio), int(height * resize_ratio)), or the size unchanged
FitSize(width, height, maxw, maxh) ==
    IF RatioBelowOne(width, height, maxw, maxh)
    THEN LET r == ResizeRatio(width, height, maxw, maxh)
         IN  <<FloatIntMul(width, r[1], r[2]), FloatIntMul(height, r[1], r[2])>>
    ELSE <<width, height>>

\* Pillow's resize raises ValueError("height and width must be > 0")
Resizable(size) == size[1] >= 1 /\ size[2] >= 1

Resize(im, size) == [im EXCEPT !.width = size[1], !.height = size[2]]

(***************************************************************************)
(* The fallback's reduction factor: 0.8 less 0.1 per failed attempt, as    *)
(* doubles 0.8, 0.7000000000000001, 0.6000000000000001,                    *)
(* 0.5000000000000001, 0.40000000000000013, 0.30000000000000016,           *)
(* 0.20000000000000015.  Each is at or just above its decimal value, and   *)
(* int(n * factor) is floor(n * tenths / 10) for every n below 2^40.       *)
(***************************************************************************)
\* the factor after k subtractions, in tenths
FactorTenths(k) == FirstFactorTenths - k

\* `reduction_factor > 0.3`: the double after k >= 1 subtractions lies above its
\* decimal value, so the factor that reads 0.3 still compares greater than 0.3
FactorAboveFloor(k) ==
    FactorTenths(k) > FactorFloorTenths
        \/ (FactorTenths(k) = FactorFloorTenths /\ k >= 1)

\* mutant: every attempt reduces the size the attempt before it reduced to
RECURSIVE ReducedSizeCompounded(_, _)
ReducedSizeCompounded(size, k) ==
    LET from == IF k = 0 THEN size ELSE ReducedSizeCompounded(size, k - 1)
    IN  <<(from[1] * FactorTenths(k)) \div 10, (from[2] * FactorTenths(k)) \div 10>>

\* (int(current_width * reduction_factor), int(current_height * reduction_factor))
ReducedSize(size, k) ==
    <<(size[1] * FactorTenths(k)) \div 10, (size[2] * FactorTenths(k)) \div 10>>

(***************************************************************************)
(* Encoded buffers.                                                        *)
(***************************************************************************)
\* None, and what `best_image_bytes or img_bytes` treats like it
NoBytes == [lossless |-> FALSE, quality |-> 0, size |-> <<0, 0>>, alpha |-> FALSE, len |-> 0]

\* image.save(img_buffer, format='WebP', quality=q, optimize=True) or, lossless,
\* image.save(img_buffer, format='WebP', lossless=True, optimize=True)
Encode(im, lossless, q, n) ==
    [lossless |-> lossless, quality |-> IF lossless THEN 0 ELSE q,
     size |-> <<im.width, im.height>>, alpha |-> HasAlpha(im), len |-> n]

\* mutant: one byte over the budget passes
WithinTargetOrOneOver(buf, target) == buf.len <= BytesPerKB * target + 1

\* `len(bytes) / 1024 <= target_size_kb`; the division by 1024 is exact in doubles
WithinTarget(buf, target) == buf.len <= BytesPerKB * target

\* `a or b` on byte strings
Or(a, b) == IF a # NoBytes THEN a ELSE b

\* the lengths an encode can have: exactly the budget of t KB, one byte over it
Lens(t) == {BytesPerKB * t, BytesPerKB * t + 1}


(***************************************************************************)
(* State: the arguments of the call, the locals of compress_image and of   *)
(* create_mobile_version, and the value returned.                          *)
(***************************************************************************)
VARIABLES
    call,                   \* the function called
    pc,                     \* the position in it
    original,               \* the image passed in
    preserve_transparency,
    background_color,       \* main's colour picker value (White when it is not shown)
    target_size_kb,
    quality,                \* the initial (ceiling) quality
    max_width,
    max_height,
    min_len,                \* encoder: length of the image at full reduction, quality 1
    has_transparency,
    image,
    low_quality,
    high_quality,
    best_quality,
    best_image_bytes,
    img_bytes,
    current_size,           \* (current_width, current_height)
    reductions,             \* times `reduction_factor -= 0.1` has run
    probes,                 \* the search's encodes so far: [at: quality probed, buf]
    attempts,               \* the fallback's encodes so far
    result,                 \* the tuple returned
    \* main, the batch run started by "Compress All Images"
    file_details,           \* the uploads that could be opened, in upload order
    enable_mobile,
    mobile_width,
    file_index,             \* the loop's `i`
    processed_images,
    total_desktop_size,     \* in bytes
    total_mobile_size,      \* in bytes
    successful_compressions,
    status_text,            \* the positions i+1 the loop has shown in status_text
    archives                \* the ZIP files built for the download buttons

\* the state of the batch run
batch == <<file_details, enable_mobile, mobile_width, file_index, processed_images,
           total_desktop_size, total_mobile_size, successful_compressions,
           status_text, archives>>

vars == <<call, pc, original, preserve_transparency, background_color, target_size_kb,
          quality, max_width, max_height, min_len, has_transparency, image,
          low_quality, high_quality, best_quality, best_image_bytes, img_bytes,
          current_size, reductions, probes, attempts, result, batch>>

args == <<call, original, preserve_transparency, background_color, target_size_kb,
          quality, max_width, max_height, min_len>>

NoResult == [bytes |-> NoBytes, quality |-> 0, dimensions |-> <<0, 0>>,
             has_transparency |-> FALSE]

\* the images of the given sizes and pixels
Images(widths, heights, full) ==
    UNION {[mode : {m}, transparency : {t}, width : widths, height : heights,
            px : IF full THEN PixelsOf(m, t) ELSE {[rgb |-> White, a |-> 255]}]
           : <<m, t>> \in ((Modes \X {FALSE}) \cup {<<"P", TRUE>>})}

\* the ceilings tried
Ceilings == (1..MaxLowCeiling) \cup {MaxQuality}

Locals0 ==
    /\ has_transparency = FALSE
    /\ image = original
    /\ low_quality = 0
    /\ high_quality = 0
    /\ best_quality = 0
    /\ best_image_bytes = NoBytes
    /\ img_bytes = NoBytes
    /\ current_size = <<0, 0>>
    /\ reductions = 0
    /\ probes = {}
    /\ attempts = {}
    /\ result = NoResult

\* the ZIP files before any is built
NoArchives == [all |-> <<>>, desktop |-> <<>>, mobile |-> <<>>]

\* line 512-515, the batch's accumulators before the loop
Totals0 ==
    /\ processed_images = <<>>
    /\ total_desktop_size = 0
    /\ total_mobile_size = 0
    /\ successful_compressions = 0

\* no batch is run
NoBatch ==
    /\ file_details = <<>>
    /\ enable_mobile = FALSE
    /\ mobile_width = max_width
    /\ file_index = 0
    /\ Totals0
    /\ status_text = <<>>
    /\ archives = NoArchives

Init ==
    /\ call \in {"compress_image", "create_mobile_version"}
    /\ pc = "start"
    /\ original \in Images(1..MaxDim, 1..MaxDim, FALSE)
    /\ preserve_transparency \in BOOLEAN
    /\ background_color = White
    /\ target_size_kb \in 1..MaxTargetKB
    /\ quality \in IF call = "compress_image" THEN Ceilings ELSE {MobileQuality}
    /\ max_width \in MinBound..MaxBound
    /\ max_height \in IF call = "compress_image" THEN MinBound..MaxBound ELSE {MaxBound}
    /\ min_len \in IF call = "compress_image" THEN Lens(target_size_kb)
                                              ELSE {BytesPerKB * target_size_kb}
    /\ Locals0
    /\ NoBatch

(***************************************************************************)
(* The encoder: the length of a buffer is free, but the same image encoded *)
(* with the same options gives the same bytes.                             *)
(***************************************************************************)
\* the size the fallback's last attempt resizes to
FullReduction(size) == ReducedSize(size, FirstFactorTenths - FactorFloorTenths)

EncodeLens(im, lossless, q, entry) ==
    LET made == {h.buf : h \in probes} \cup attempts
        same == {b \in made : /\ b.lossless = lossless
                              /\ b.quality = (IF lossless THEN 0 ELSE q)
                              /\ b.size = <<im.width, im.height>>}
    IN  IF same # {} THEN {b.len : b \in same}
        ELSE IF ~lossless /\ q = 1 /\ <<im.width, im.height>> = FullReduction(entry)
        THEN {min_len}
        ELSE Lens(target_size_kb)

(***************************************************************************)
(* compress_image                                                          *)
(***************************************************************************)
\* lines 152-156
Prepare ==
    /\ pc = "start"
    /\ call = "compress_image"
    /\ has_transparency' = HasTransparency(original)
    /\ image' = prepare_image_for_webp(original,
                                       preserve_transparency /\ HasTransparency(original))
    /\ pc' = "fit"
    /\ UNCHANGED <<args, batch, low_quality, high_quality, best_quality, best_image_bytes,
                   img_bytes, current_size, reductions, probes, attempts, result>>

\* lines 158-172: the resize to the fit, then the search's initial bounds
Fit ==
    /\ pc = "fit"
    /\ LET size == FitSize(image.width, image.height, max_width, max_height)
       IN  IF Resizable(size)
           THEN /\ image' = Resize(image, size)
                /\ low_quality' = 1
                /\ high_quality' = quality
                /\ best_quality' = quality
                /\ best_image_bytes' = NoBytes
                /\ pc' = "search"
           ELSE /\ pc' = "raised"
                /\ UNCHANGED <<image, low_quality, high_quality, best_quality,
                               best_image_bytes>>
    /\ UNCHANGED <<args, batch, has_transparency, img_bytes, current_size, reductions,
                   probes, attempts, result>>

\* mutant: lossless whether or not transparency is to be preserved
LosslessProbeUnasked(q) == has_transparency /\ q > LosslessAbove

\* `has_transparency and preserve_transparency and current_quality > 90`
LosslessProbe(q) == has_transparency /\ preserve_transparency /\ q > LosslessAbove

\* mutant: the search probes its lower bound
MidLowest(low, high) == low

\* `current_quality = (low_quality + high_quality) // 2`
Mid(low, high) == (low + high) \div 2

\* `low_quality = current_quality + 1`
NextLow(q) == q + 1

\* mutant: the upper bound skips a quality
NextHighSkipsOne(q) == q - 2

\* `high_quality = current_quality - 1`
NextHigh(q) == q - 1

\* lines 174-200: one iteration of the binary search
Probe ==
    /\ pc = "search"
    /\ low_quality <= high_quality
    /\ LET current_quality == Mid(low_quality, high_quality)
       IN  \E n \in EncodeLens(image, LosslessProbe(current_quality), current_quality,
                               <<image.width, image.height>>) :
             LET buf == Encode(image, LosslessProbe(current_quality), current_quality, n)
             IN  /\ img_bytes' = buf
                 /\ probes' = probes \cup {[at |-> current_quality, buf |-> buf]}
                 /\ IF WithinTarget(buf, target_size_kb)
                    THEN /\ best_quality' = current_quality
                         /\ best_image_bytes' = buf
                         /\ low_quality' = NextLow(current_quality)
                         /\ UNCHANGED high_quality
                    ELSE /\ high_quality' = NextHigh(current_quality)
                         /\ UNCHANGED <<best_quality, best_image_bytes, low_quality>>
    /\ UNCHANGED <<args, batch, pc, has_transparency, image, current_size, reductions,
                   attempts, result>>

\* lines 174, 203-206: the search is over; the fallback starts if nothing met the budget
SearchEnd ==
    /\ pc = "search"
    /\ low_quality > high_quality
    /\ IF best_image_bytes = NoBytes \/ ~WithinTarget(best_image_bytes, target_size_kb)
       THEN /\ current_size' = <<image.width, image.height>>
            /\ reductions' = 0
            /\ pc' = "fallback"
       ELSE /\ pc' = "return"
            /\ UNCHANGED <<current_size, reductions>>
    /\ UNCHANGED <<args, batch, has_transparency, image, low_quality, high_quality,
                   best_quality, best_image_bytes, img_bytes, probes, attempts, result>>

\* the condition of the fallback's while loop, line 208
FallbackGoesOn ==
    /\ ~WithinTarget(Or(best_image_bytes, img_bytes), target_size_kb)
    /\ FactorAboveFloor(reductions)

\* lines 208-228: one iteration of the fallback
Reduce ==
    /\ pc = "fallback"
    /\ FallbackGoesOn
    /\ LET size == ReducedSize(current_size, reductions)
       IN  IF Resizable(size)
           THEN \E n \in EncodeLens(Resize(image, size), FALSE, best_quality, current_size) :
                  LET resized_image == Resize(image, size)
                      buf == Encode(resized_image, FALSE, best_quality, n)
                  IN  /\ img_bytes' = buf
                      /\ attempts' = attempts \cup {buf}
                      /\ IF WithinTarget(buf, target_size_kb)
                         THEN /\ best_image_bytes' = buf
                              /\ image' = resized_image
                              /\ pc' = "return"
                              /\ UNCHANGED reductions
                         ELSE /\ reductions' = reductions + 1
                              /\ UNCHANGED <<best_image_bytes, image, pc>>
           ELSE /\ pc' = "raised"
                /\ UNCHANGED <<img_bytes, attempts, best_image_bytes, image, reductions>>
    /\ UNCHANGED <<args, batch, has_transparency, low_quality, high_quality, best_quality,
                   current_size, probes, result>>

\* line 208 false: the loop ends
FallbackEnd ==
    /\ pc = "fallback"
    /\ ~FallbackGoesOn
    /\ pc' = "return"
    /\ UNCHANGED <<args, batch, has_transparency, image, low_quality, high_quality,
                   best_quality, best_image_bytes, img_bytes, current_size, reductions,
                   probes, attempts, result>>

\* lines 230-231
Return ==
    /\ pc = "return"
    /\ result' = [bytes |-> Or(best_image_bytes, img_bytes), quality |-> best_quality,
                  dimensions |-> <<image.width, image.height>>,
                  has_transparency |-> has_transparency]
    /\ pc' = "done"
    /\ UNCHANGED <<args, batch, has_transparency, image, low_quality, high_quality,
                   best_quality, best_image_bytes, img_bytes, current_size, reductions,
                   probes, attempts>>

(***************************************************************************)
(* create_mobile_version, lines 233-256                                    *)
(***************************************************************************)
\* (max_width, int(height * ratio)) with ratio = max_width / width, or the size unchanged
MobileSize(width, height, maxw) ==
    IF width > maxw THEN <<maxw, FloatIntMul(height, maxw, width)>>
                    ELSE <<width, height>>

CreateMobileVersion ==
    /\ pc = "start"
    /\ call = "create_mobile_version"
    /\ has_transparency' = HasTransparency(original)
    /\ LET prepared == prepare_image_for_webp(original,
                            preserve_transparency /\ HasTransparency(original))
           size == MobileSize(prepared.width, prepared.height, max_width)
       IN  IF Resizable(size)
           THEN \E n \in Lens(target_size_kb) :
                  LET buf == Encode(Resize(prepared, size), FALSE, MobileQuality, n)
                  IN  /\ image' = Resize(prepared, size)
                      /\ img_bytes' = buf
                      /\ result' = [bytes |-> buf, quality |-> MobileQuality,
                                    dimensions |-> size,
                                    has_transparency |-> HasTransparency(original)]
                      /\ pc' = "done"
           ELSE /\ image' = prepared
                /\ pc' = "raised"
                /\ UNCHANGED <<img_bytes, result>>
    /\ UNCHANGED <<args, batch, low_quality, high_quality, best_quality, best_image_bytes,
                   current_size, reductions, probes, attempts>>

Next ==
    \/ Prepare
    \/ Fit
    \/ Probe
    \/ SearchEnd
    \/ Reduce
    \/ FallbackEnd
    \/ Return
    \/ CreateMobileVersion

Spec == Init /\ [][Next]_vars


(***************************************************************************)
(* prepare_image_for_webp on its own: every mode, pixel and value of       *)
(* preserve, with the background colour main's colour picker holds.        *)
(***************************************************************************)
\* lines 85-135, called as a function
PrepareImage ==
    /\ pc = "start"
    /\ call = "prepare_image_for_webp"
    /\ image' = prepare_image_for_webp(original, preserve_transparency)
    /\ pc' = "done"
    /\ UNCHANGED <<args, batch, has_transparency, low_quality, high_quality, best_quality,
                   best_image_bytes, img_bytes, current_size, reductions, probes,
                   attempts, result>>

InitPrep ==
    /\ call = "prepare_image_for_webp"
    /\ pc = "start"
    /\ original \in Images({1}, {1}, TRUE)
    /\ preserve_transparency \in BOOLEAN
    \* main, lines 350-355: the picker exists only when transparency is not preserved
    /\ background_color \in IF preserve_transparency THEN {White} ELSE Colours
    /\ target_size_kb = 1
    /\ quality = MaxQuality
    /\ max_width = MaxBound
    /\ max_height = MaxBound
    /\ min_len = BytesPerKB
    /\ Locals0
    /\ NoBatch

NextPrep == PrepareImage

SpecPrep == InitPrep /\ [][NextPrep]_vars

(***************************************************************************)
(* The dimension fitting of compress_image on its own, over sizes large    *)
(* enough for the rounding of the doubles to show.                         *)
(***************************************************************************)
InitFit ==
    /\ call = "compress_image"
    /\ pc = "start"
    /\ original \in [mode : {"RGB"}, transparency : {FALSE}, width : 1..MaxFitDim,
                     height : 1..MaxFitDim, px : {[rgb |-> White, a |-> 255]}]
    /\ preserve_transparency = TRUE
    /\ background_color = White
    /\ target_size_kb = 1
    /\ quality = 1
    /\ max_width \in 1..MaxFitBound
    /\ max_height \in 1..MaxFitBound
    /\ min_len = BytesPerKB
    /\ Locals0
    /\ NoBatch

NextFit ==
    \/ Prepare
    \/ Fit

SpecFit == InitFit /\ [][NextFit]_vars

(***************************************************************************)
(* create_mobile_version on its own, over sizes large enough for the       *)
(* rounding of the doubles to show.                                        *)
(***************************************************************************)
InitMobile ==
    /\ call = "create_mobile_version"
    /\ pc = "start"
    /\ original \in [mode : {"RGB"}, transparency : {FALSE}, width : 1..MaxFitDim,
                     height : 1..MaxFitDim, px : {[rgb |-> White, a |-> 255]}]
    /\ preserve_transparency = TRUE
    /\ background_color = White
    /\ target_size_kb = 1
    /\ quality = MobileQuality
    /\ max_width \in 1..MaxFitBound
    /\ max_height = MaxFitBound
    /\ min_len = BytesPerKB
    /\ Locals0
    /\ NoBatch

NextMobile == CreateMobileVersion

SpecMobile == InitMobile /\ [][NextMobile]_vars

(***************************************************************************)
(* main: the batch run, lines 503-663.  A file name is the sequence of its *)
(* characters; a buffer is known by its length, 0 standing for None.       *)
(* compress_image and create_mobile_version are taken by their outcome:    *)
(* the error of a resize to a zero dimension, or the length of the buffer  *)
(* returned.  Image.open on a buffer Pillow has just encoded (lines 561    *)
(* and 563) does not raise.                                                *)
(***************************************************************************)
\* the locals of compress_image and create_mobile_version
locals == <<has_transparency, image, low_quality, high_quality, best_quality,
            best_image_bytes, img_bytes, current_size, reductions, probes, attempts,
            result>>

\* the names of the uploads
Names == {<<"a", ".", "p", "n", "g">>, <<"a", ".", "j", "p", "g">>,
          <<"b", ".", "p", "n", "g">>}

\* the images of the uploads: one no resize can fail on, one too narrow for the
\* fallback's reduction, one too flat for the mobile resize
BatchImages ==
    [mode : {"RGB"}, transparency : {FALSE}, width : {MaxBound}, height : {1, MaxBound},
     px : {[rgb |-> White, a |-> 255]}]
        \cup [mode : {"RGB"}, transparency : {FALSE}, width : {1}, height : {2},
              px : {[rgb |-> White, a |-> 255]}]

\* lines 444-452: a file_detail, its 'success' key not yet set
FileDetails ==
    [name : Names, image : BatchImages, success : {"unset"},
     desktop_compressed : {0}, mobile_compressed : {0}]

\* the sequences over S of length 0..n
RECURSIVE SeqsUpTo(_, _)
SeqsUpTo(S, n) ==
    IF n = 0 THEN {<<>>}
    ELSE LET shorter == SeqsUpTo(S, n - 1)
         IN  shorter \cup {Append(q, x) : q \in {t \in shorter : Len(t) = n - 1}, x \in S}

\* os.path.splitext(name)[0]: the name up to its last dot, unless only dots precede it
Splitext(name) ==
    LET dots == {k \in 1..Len(name) : name[k] = "."}
        last == CHOOSE k \in dots : \A j \in dots : j <= k
    IN  IF dots # {} /\ (\E k \in 1..(last - 1) : name[k] # ".")
        THEN SubSeq(name, 1, last - 1)
        ELSE name

\* f"desktop/{filename}_desktop.webp"
DesktopEntry(filename) == <<"desktop/">> \o filename \o <<"_desktop.webp">>

\* f"mobile/{filename}_mobile.webp"
MobileEntry(filename) == <<"mobile/">> \o filename \o <<"_mobile.webp">>

\* f"{filename}_mobile.webp"
MobileOnlyEntry(filename) == filename \o <<"_mobile.webp">>

\* lines 258-274; writestr appends an entry, whether or not its name is taken
RECURSIVE create_zip_file(_, _)
create_zip_file(processed, include_mobile) ==
    IF processed = <<>> THEN <<>>
    ELSE LET p == Head(processed)
         IN  <<DesktopEntry(p.filename)>>
                 \o (IF include_mobile /\ p.mobile_data # 0
                     THEN <<MobileEntry(p.filename)>> ELSE <<>>)
                 \o create_zip_file(Tail(processed), include_mobile)

\* lines 276-287
RECURSIVE create_mobile_only_zip(_)
create_mobile_only_zip(processed) ==
    IF processed = <<>> THEN <<>>
    ELSE LET p == Head(processed)
         IN  (IF p.mobile_data # 0 THEN <<MobileOnlyEntry(p.filename)>> ELSE <<>>)
                 \o create_mobile_only_zip(Tail(processed))

\* a call that raised, and a call that returned a buffer of n bytes
Raised == [raised |-> TRUE, len |-> 0]

ReturnedBytes(n) == [raised |-> FALSE, len |-> n]

\* the factors the fallback of compress_image can get to
FallbackSteps == 0..(FirstFactorTenths - FactorFloorTenths)

\* compress_image(image, target_size, initial_quality, desktop_width, desktop_height,
\* preserve_transparency) by its outcome: it raises when the fit, or the fallback after
\* no probe met the budget, resizes to a zero dimension; it returns a buffer above the
\* budget only when the fallback ran through
CompressImageResults(im) ==
    LET size == FitSize(im.width, im.height, max_width, max_height)
        within == {n \in Lens(target_size_kb) : n <= BytesPerKB * target_size_kb}
        above == Lens(target_size_kb) \ within
    IN  IF ~Resizable(size) THEN {Raised}
        ELSE {ReturnedBytes(n) : n \in within}
                 \cup (IF \E k \in FallbackSteps : ~Resizable(ReducedSize(size, k))
                       THEN {Raised}
                       ELSE {ReturnedBytes(n) : n \in above})

\* create_mobile_version(image, mobile_width, preserve_transparency) by its outcome
MobileVersionResults(im) ==
    IF Resizable(MobileSize(im.width, im.height, mobile_width))
    THEN {ReturnedBytes(n) : n \in Lens(target_size_kb)}
    ELSE {Raised}

\* lines 532-535: no mobile version is made
NoMobile == ReturnedBytes(0)

\* mutant: the except clause marks the whole batch failed
MarkAllFailed(details, k) ==
    [j \in 1..Len(details) |-> [details[j] EXCEPT !.success = "False"]]

\* lines 568-571: file_detail['success'] = False
MarkFailed(details, k) == [details EXCEPT ![k].success = "False"]

\* lines 554-564: the results kept in the file_detail, and file_detail['success'] = True
MarkSuccess(details, k, desktop, mobile) ==
    [details EXCEPT ![k].success = "True", ![k].desktop_compressed = desktop,
                    ![k].mobile_compressed = mobile]

\* mutant: a size is added twice
AddSizeTwice(total, n) == total + n + n

\* `total_desktop_size += desktop_size_kb`, `total_mobile_size += mobile_size_kb`; the
\* sizes are whole bytes over 1024, which doubles add exactly
AddSize(total, n) == total + n

InitBatch ==
    /\ call = "main"
    /\ pc = "button"
    /\ original = [mode |-> "RGB", transparency |-> FALSE, width |-> 1, height |-> 1,
                   px |-> [rgb |-> White, a |-> 255]]
    /\ preserve_transparency = TRUE
    /\ background_color = White
    /\ target_size_kb = 1
    /\ quality = MaxQuality
    /\ max_width = MaxBound
    /\ max_height = MaxBound
    /\ min_len = BytesPerKB
    /\ Locals0
    /\ file_details \in SeqsUpTo(FileDetails, MaxFiles)
    /\ enable_mobile \in BOOLEAN
    /\ mobile_width = MinBound
    /\ file_index = 0
    /\ Totals0
    /\ status_text = <<>>
    /\ archives = NoArchives

\* lines 503-517: the button is pressed
StartBatch ==
    /\ pc = "button"
    /\ call = "main"
    /\ IF file_details = <<>>
       THEN pc' = "done"
       ELSE pc' = "loop"
    /\ processed_images' = <<>>
    /\ total_desktop_size' = 0
    /\ total_mobile_size' = 0
    /\ successful_compressions' = 0
    /\ file_index' = 0
    /\ UNCHANGED <<args, locals, file_details, enable_mobile, mobile_width, status_text,
                   archives>>

\* lines 520-571: one iteration of the loop, the try and its except clause
ProcessImage ==
    /\ pc = "loop"
    /\ file_index < Len(file_details)
    /\ LET k == file_index + 1
           file_detail == file_details[k]
       IN  /\ status_text' = Append(status_text, k)
           /\ \E desktop \in CompressImageResults(file_detail.image) :
              \E mobile \in IF enable_mobile THEN MobileVersionResults(file_detail.image)
                                             ELSE {NoMobile} :
                IF desktop.raised \/ mobile.raised
                THEN /\ file_details' = MarkFailed(file_details, k)
                     /\ UNCHANGED <<processed_images, total_desktop_size,
                                    total_mobile_size, successful_compressions>>
                ELSE /\ total_mobile_size' = AddSize(total_mobile_size, mobile.len)
                     /\ total_desktop_size' = AddSize(total_desktop_size, desktop.len)
                     /\ processed_images' =
                            Append(processed_images,
                                   [filename |-> Splitext(file_detail.name),
                                    desktop_data |-> desktop.len,
                                    mobile_data |-> mobile.len])
                     /\ file_details' = MarkSuccess(file_details, k, desktop.len,
                                                    mobile.len)
                     /\ successful_compressions' = successful_compressions + 1
    /\ file_index' = file_index + 1
    /\ UNCHANGED <<args, locals, pc, enable_mobile, mobile_width, archives>>

\* lines 573-663: the loop is over; the ZIP files of the download buttons are built
Downloads ==
    /\ pc = "loop"
    /\ file_index >= Len(file_details)
    /\ archives' =
           IF enable_mobile
           THEN [all |-> create_zip_file(processed_images, TRUE),
                 desktop |-> create_zip_file(processed_images, FALSE),
                 mobile |-> create_mobile_only_zip(processed_images)]
           ELSE [NoArchives EXCEPT !.desktop = create_zip_file(processed_images, FALSE)]
    /\ pc' = "done"
    /\ UNCHANGED <<args, locals, file_details, enable_mobile, mobile_width, file_index,
                   processed_images, total_desktop_size, total_mobile_size,
                   successful_compressions, status_text>>

NextBatch ==
    \/ StartBatch
    \/ ProcessImage
    \/ Downloads

\* the script runs on until it ends
SpecBatch == InitBatch /\ [][NextBatch]_vars /\ WF_vars(NextBatch)

(***************************************************************************)
(* compress_image on its own for every ceiling of the quality slider's     *)
(* scale, on images large enough for each fallback factor to give a size   *)
(* of its own.                                                             *)
(***************************************************************************)
InitSearch ==
    /\ call = "compress_image"
    /\ pc = "start"
    /\ original \in [mode : {"RGB", "RGBA"}, transparency : {FALSE}, width : {SearchDim},
                     height : {SearchDim}, px : {[rgb |-> White, a |-> 255]}]
    /\ preserve_transparency \in BOOLEAN
    /\ background_color = White
    /\ target_size_kb = 1
    /\ quality \in 1..MaxQuality
    /\ max_width = SearchDim
    /\ max_height = SearchDim
    /\ min_len \in Lens(target_size_kb)
    /\ Locals0
    /\ NoBatch

NextSearch ==
    \/ Prepare
    \/ Fit
    \/ Probe
    \/ SearchEnd
    \/ Reduce
    \/ FallbackEnd
    \/ Return

\* the call runs on until it returns or raises
SpecSearch == InitSearch /\ [][NextSearch]_vars /\ WF_vars(NextSearch)

(***************************************************************************)
(* Properties                                                              *)
(***************************************************************************)
\* the size of the image the quality search encodes
EntrySize == FitSize(original.width, original.height, max_width, max_height)

Returned == pc = "done" /\ call = "compress_image"

Budget == BytesPerKB * target_size_kb

\* C1: whenever the budget is at least the length of the image encoded at quality 1
\* after the full fallback reduction, compress_image returns a buffer no longer than
\* the budget.
C1_MeetsAchievableBudget ==
    (Returned /\ Resizable(FullReduction(EntrySize)) /\ min_len <= Budget)
        => result.bytes.len <= Budget

\* C2: the dimensions compress_image returns are within max_width and max_height.
C2_WithinMaxDimensions ==
    Returned => /\ result.dimensions[1] <= max_width
                /\ result.dimensions[2] <= max_height

\* C2 witness: a return after a resize to the fit and a successful fallback attempt
C2_Witness ==
    /\ Returned
    /\ RatioBelowOne(original.width, original.height, max_width, max_height)
    /\ attempts # {}
    /\ result.bytes \in attempts
    /\ result.bytes.len <= Budget

\* the probes seen are those of an encoder whose size is non-decreasing in quality
\* and for which t is the highest quality that meets the budget
MonotoneWithHighest(t) ==
    /\ \A h \in probes : (h.at <= t) <=> (h.buf.len <= Budget)
    /\ \A g, h \in probes : g.at <= h.at => g.buf.len <= h.buf.len

\* C3: for an encoder whose size is non-decreasing in quality and whose highest
\* quality meeting the budget is t >= 1, compress_image returns quality t and the
\* buffer its probe at t produced.
C3_HighestQualityInBudget ==
    Returned =>
        \A t \in 1..quality :
            MonotoneWithHighest(t) =>
                /\ result.quality = t
                /\ [at |-> t, buf |-> result.bytes] \in probes

\* C3 witness: a search from the top ceiling that ends strictly inside 1..ceiling
C3_Witness ==
    /\ Returned
    /\ quality = MaxQuality
    /\ \E t \in 2..(quality - 1) : MonotoneWithHighest(t) /\ result.quality = t
    /\ Cardinality(probes) >= 6

\* C4: compress_image never raises; when no probe and no fallback attempt met the
\* budget it returns the last fallback attempt's buffer, which exceeds the budget.
C4_AlwaysReturnsLastAttempt ==
    /\ (call = "compress_image" /\ probes # {}
            /\ \A h \in probes : h.buf.len > Budget) => pc # "raised"
    /\ (Returned /\ (\A h \in probes : h.buf.len > Budget)
                 /\ (\A b \in attempts : b.len > Budget))
           => /\ result.bytes # NoBytes
              /\ result.bytes = img_bytes
              /\ result.bytes \in attempts
              /\ result.bytes.len > Budget

\* C5 (as claimed): the flag returned says whether the encoded image has an alpha
\* channel.
C5_FlagOfEncodedImage ==
    pc = "done" => result.has_transparency = result.bytes.alpha

\* C5 (amended): the flag returned is the transparency of the image passed in, computed
\* before the mode is normalised; it agrees with the encoded image's alpha channel when
\* transparency is preserved, and the encoded image has no alpha channel when it is not.
C5_FlagOfOriginalImage ==
    pc = "done" =>
        /\ result.has_transparency =
               (original.mode \in {"RGBA", "LA"}
                    \/ (original.mode = "P" /\ original.transparency))
        /\ preserve_transparency => result.has_transparency = result.bytes.alpha
        /\ ~preserve_transparency => ~result.bytes.alpha

\* C5 witness: a transparent image flattened, returned with the flag set
C5_Witness ==
    /\ Returned
    /\ ~preserve_transparency
    /\ original.mode = "RGBA"
    /\ result.has_transparency
    /\ ~result.bytes.alpha

\* C6: when the buffer returned was encoded losslessly, the quality returned is not a
\* numeric quality.
C6_LosslessHasNoQuality ==
    (Returned /\ result.bytes.lossless) => result.quality \notin 1..MaxQuality


\* the modes the normaliser is to keep an alpha channel for
CarriesTransparency(im) ==
    im.mode = "RGBA" \/ im.mode = "LA" \/ (im.mode = "P" /\ im.transparency)

\* C7: prepare_image_for_webp returns truecolor with alpha exactly when preserve is
\* true and the original is truecolor+alpha, palette with a transparent index or
\* grayscale+alpha, and plain truecolor otherwise.
C7_AlphaExactlyWhenPreserved ==
    (pc = "done" /\ call = "prepare_image_for_webp") =>
        image.mode = (IF preserve_transparency /\ CarriesTransparency(original)
                      THEN "RGBA" ELSE "RGB")

\* C7 witness: a palette image with a transparent index, expanded with its alpha kept
C7_Witness ==
    /\ pc = "done"
    /\ call = "prepare_image_for_webp"
    /\ original.mode = "P"
    /\ original.transparency
    /\ preserve_transparency
    /\ image.mode = "RGBA"
    /\ image.px.a = 0

\* C8: in a flattened image a pixel whose alpha was 0 has the background colour the
\* caller chose, and a pixel whose alpha was 255 keeps its colour.
C8_FlattenedOntoChosenBackground ==
    (pc = "done" /\ call = "prepare_image_for_webp" /\ ~preserve_transparency
         /\ CarriesTransparency(original)) =>
        /\ original.px.a = 0 => image.px.rgb = background_color
        /\ original.px.a = 255 => image.px.rgb = original.px.rgb

\* floor(width * scale), floor(height * scale) for the scale
\* min(max_width / width, max_height / height, 1) taken as a rational number
ExactFit(width, height, maxw, maxh) ==
    IF maxw >= width /\ maxh >= height THEN <<width, height>>
    ELSE IF maxw * height <= maxh * width
         THEN <<(width * maxw) \div width, (height * maxw) \div width>>
         ELSE <<(width * maxh) \div height, (height * maxh) \div height>>

\* C9: the image the fitting step hands to the search has the dimensions
\* floor(width * scale), floor(height * scale) for scale = min(max_width / width,
\* max_height / height, 1), unchanged when it already fits, never above the original.
C9_FittedToFloorOfScale ==
    (pc = "search" /\ call = "compress_image" /\ probes = {}) =>
        /\ <<image.width, image.height>>
               = ExactFit(original.width, original.height, max_width, max_height)
        /\ image.width <= original.width
        /\ image.height <= original.height

\* C10: the fitting step computes dimensions of at least 1 pixel each and hands an
\* image of those dimensions to the search.
C10_FittedAtLeastOnePixel ==
    (call = "compress_image" /\ pc \in {"search", "raised"} /\ probes = {}) =>
        /\ pc = "search"
        /\ image.width >= 1
        /\ image.height >= 1

\* C11: create_mobile_version returns width max_width and height
\* floor(height * max_width / width) when the image is wider than max_width, and the
\* original dimensions otherwise, whatever the height.
C11_MobileWidthAndFlooredHeight ==
    (pc = "done" /\ call = "create_mobile_version") =>
        result.dimensions =
            (IF original.width > max_width
             THEN <<max_width, (original.height * max_width) \div original.width>>
             ELSE <<original.width, original.height>>)

\* can the processing of this image raise
CanRaise(im) ==
    \/ Raised \in CompressImageResults(im)
    \/ enable_mobile /\ Raised \in MobileVersionResults(im)

\* the loop has handled the first file_index images, once each and in upload order; an
\* image is marked failed only for an error of its own, and an image whose processing
\* cannot raise is marked success whatever happened to the others
ErrorsStayWithTheirImage ==
    (call = "main" /\ pc \in {"loop", "done"}) =>
        /\ status_text = [k \in 1..file_index |-> k]
        /\ \A k \in 1..Len(file_details) :
             /\ (k <= file_index) <=> (file_details[k].success # "unset")
             /\ file_details[k].success = "False" => CanRaise(file_details[k].image)
             /\ (k <= file_index /\ ~CanRaise(file_details[k].image))
                    => file_details[k].success = "True"
        /\ pc = "done" => file_index = Len(file_details)

\* C12: an error raised while one image of a batch is processed marks that image
\* failed and no other; every image of the batch is processed exactly once, in upload
\* order, and the loop reaches the end of the batch.
C12_ErrorStopsOnlyItsImage ==
    /\ []ErrorsStayWithTheirImage
    /\ <>(call = "main" => pc = "done")

\* C12 witness: a batch with mobile variants that ended with its first image failed
\* and its second image processed
C12_Witness ==
    /\ call = "main"
    /\ pc = "done"
    /\ Len(file_details) = 2
    /\ file_details[1].success = "False"
    /\ enable_mobile
    /\ Raised \in MobileVersionResults(file_details[1].image)
    /\ file_details[2].success = "True"
    /\ status_text = <<1, 2>>

\* the images marked success, in upload order
Successes == SelectSeq(file_details, LAMBDA f : f.success = "True")

RECURSIVE SumOf(_, _)
SumOf(q, field) == IF q = <<>> THEN 0 ELSE Head(q)[field] + SumOf(Tail(q), field)

AfterLoop == call = "main" /\ pc = "done" /\ file_details # <<>>

\* C19: after the batch loop processed_images holds one entry for each image marked
\* success, in upload order, and none for an image marked failed; each archive holds
\* one desktop entry and, with mobile variants, one mobile entry per image marked
\* success; successful_compressions is the number of images marked success, and the
\* two totals are the sums of the sizes of the images marked success.
C19_TotalsOfSuccessesOnly ==
    AfterLoop =>
        /\ processed_images =
               [j \in 1..Len(Successes) |->
                    [filename |-> Splitext(Successes[j].name),
                     desktop_data |-> Successes[j].desktop_compressed,
                     mobile_data |-> Successes[j].mobile_compressed]]
        /\ successful_compressions = Len(Successes)
        /\ total_desktop_size = SumOf(Successes, "desktop_compressed")
        /\ total_mobile_size = SumOf(Successes, "mobile_compressed")
        /\ Len(archives.desktop) = Len(Successes)
        /\ enable_mobile => /\ Len(archives.all) = 2 * Len(Successes)
                            /\ Len(archives.mobile) = Len(Successes)

\* C19 witness: a batch with mobile variants in which one image failed and one was
\* processed
C19_Witness ==
    /\ AfterLoop
    /\ enable_mobile
    /\ Len(file_details) = 2
    /\ file_details[1].success = "True"
    /\ file_details[2].success = "False"
    /\ Len(processed_images) = 1
    /\ total_desktop_size > BytesPerKB * target_size_kb
    /\ total_mobile_size > 0

\* no two entries of the archive have the same name
DistinctEntries(zip) == \A j, k \in 1..Len(zip) : j # k => zip[j] # zip[k]

\* C20: when the file names of a batch are pairwise distinct, the entry names of each
\* archive built by create_zip_file and by create_mobile_only_zip are pairwise
\* distinct.
C20_DistinctNamesDistinctEntries ==
    (AfterLoop /\ \A j, k \in 1..Len(file_details) :
                      j # k => file_details[j].name # file_details[k].name)
        => /\ DistinctEntries(archives.all)
           /\ DistinctEntries(archives.desktop)
           /\ DistinctEntries(archives.mobile)

\* C13 (as claimed): the quality search terminates and makes at most log2(ceiling)
\* probes, that is at most floor(log2(ceiling)), the number of probes being whole.
C13_AtMostLog2Probes ==
    /\ [](call = "compress_image" => Cardinality(probes) <= FloorLog2(quality))
    /\ (pc = "search" ~> pc # "search")

\* C13 (amended): for every ceiling and every mapping from quality to size the quality
\* search terminates, and it makes at most floor(log2(ceiling)) + 1 probes.
C13_AtMostLog2PlusOneProbes ==
    /\ [](call = "compress_image" => Cardinality(probes) <= FloorLog2(quality) + 1)
    /\ (pc = "search" ~> pc # "search")

\* C13 witness: a search from the ceiling 100 that is over after 7 probes
C13_Witness ==
    /\ Returned
    /\ quality = MaxQuality
    /\ Cardinality(probes) = FloorLog2(MaxQuality) + 1

\* every probe made so far is lossless exactly when the original image has
\* transparency, preservation is asked for and the probed quality is above 90, and is
\* otherwise a lossy encode at the probed quality
ProbesEncodedAsAsked ==
    \A h \in probes :
        /\ h.buf.lossless <=> (/\ CarriesTransparency(original)
                               /\ preserve_transparency
                               /\ h.at > LosslessAbove)
        /\ ~h.buf.lossless => h.buf.quality = h.at

\* a probe moves low above mid when its size is within the budget, and high below mid
\* otherwise, whether it was lossless or not
BoundsMoveOnSizeAlone ==
    (pc = "search" /\ low_quality <= high_quality) =>
        LET mid == (low_quality + high_quality) \div 2
        IN  IF img_bytes'.len <= Budget
            THEN low_quality' = mid + 1 /\ high_quality' = high_quality
            ELSE high_quality' = mid - 1 /\ low_quality' = low_quality

\* C14: a probe of the quality search is lossless exactly when the original image has
\* transparency, preservation is requested and mid > 90, every other probe is a lossy
\* encode at quality mid, and the bounds move on the comparison of the probe's size
\* with the budget alone.
C14_LosslessExactlyAboveNinety ==
    /\ []ProbesEncodedAsAsked
    /\ [][BoundsMoveOnSizeAlone]_vars

\* C14 witness: a search that made a lossless probe over the budget and a lossy probe
\* within it
C14_Witness ==
    /\ Returned
    /\ \E g, h \in probes : /\ g.buf.lossless
                            /\ g.buf.len > Budget
                            /\ ~h.buf.lossless
                            /\ h.at < g.at
                            /\ h.buf.len <= Budget

\* the size scaled by a factor given in tenths, floored
ScaledBy(size, tenths) == <<(size[1] * tenths) \div 10, (size[2] * tenths) \div 10>>

\* C15: the fallback runs only when no probe met the budget; its attempts use the
\* factors 0.8, 0.7, 0.6, 0.5, 0.4 in that order and no factor of 0.3 or less; every
\* attempt is a lossy encode at the fixed best quality; and it stops at the first
\* attempt within the budget.
C15_FallbackFactorsAboveFloor ==
    call = "compress_image" =>
        /\ attempts # {} => \A h \in probes : h.buf.len > Budget
        /\ \A b \in attempts :
             /\ ~b.lossless
             /\ b.quality = best_quality
             /\ \E tenths \in 4..8 : b.size = ScaledBy(EntrySize, tenths)
        /\ reductions <= 5
        /\ pc = "fallback" =>
             /\ \A b \in attempts : b.len > Budget
             /\ reductions >= 1 => img_bytes.size = ScaledBy(EntrySize, 9 - reductions)

\* the entry size after k attempts, each scaling the size the attempt before it left
RECURSIVE ScaledInTurn(_, _)
ScaledInTurn(size, k) ==
    IF k = 0 THEN size ELSE ScaledBy(ScaledInTurn(size, k - 1), 9 - k)

\* C16 (as claimed): every attempt of the fallback resizes the image the attempt before
\* it produced, so the k-th attempt has the entry dimensions scaled by the first k
\* factors in turn, floored at each step.
C16_AttemptScalesPreviousAttempt ==
    (call = "compress_image" /\ pc = "fallback" /\ reductions >= 1) =>
        img_bytes.size = ScaledInTurn(EntrySize, reductions)

\* C16 (amended): every attempt of the fallback resizes the image that entered the
\* fallback, so the k-th attempt has the entry dimensions scaled by the k-th factor
\* alone, floored.
C16_AttemptScalesEntryImage ==
    (call = "compress_image" /\ pc = "fallback" /\ reductions >= 1) =>
        /\ img_bytes.size = ScaledBy(EntrySize, 9 - reductions)
        /\ <<image.width, image.height>> = EntrySize

\* C16 witness: the third attempt failed, and its size is not that of the factors
\* applied in turn
C16_Witness ==
    /\ call = "compress_image"
    /\ pc = "fallback"
    /\ reductions = 3
    /\ img_bytes.size # ScaledInTurn(EntrySize, reductions)

\* C17: the dimensions compress_image returns are those of the image encoded into the
\* buffer it returns.
C17_DimensionsOfReturnedBuffer ==
    Returned => result.dimensions = result.bytes.size

\* the probes so far that met the budget
ProbesInBudget == {h \in probes : h.buf.len <= Budget}

\* best_image_bytes is unset and best_quality the ceiling while no probe met the
\* budget; afterwards they are the buffer and the quality of the probe of the largest
\* quality that met it
BestIsHighestProbeInBudget ==
    (call = "compress_image" /\ pc = "search") =>
        IF ProbesInBudget = {}
        THEN best_image_bytes = NoBytes /\ best_quality = quality
        ELSE /\ [at |-> best_quality, buf |-> best_image_bytes] \in ProbesInBudget
             /\ \A h \in ProbesInBudget : h.at <= best_quality

\* a probe that meets the budget is at a quality above every earlier one that did
SuccessesIncrease ==
    (pc = "search" /\ low_quality' # low_quality /\ ProbesInBudget # {}) =>
        best_quality' > best_quality

\* C18: at every step of the quality search best_image_bytes is unset or the buffer of
\* a probe within the budget, best_quality is then the largest probed quality that met
\* the budget, successful probes come in increasing quality, and best_quality is the
\* ceiling while no probe met the budget.
C18_BestIsLargestProbeInBudget ==
    /\ []BestIsHighestProbeInBudget
    /\ [][SuccessesIncrease]_vars

\* C18 witness: a search with two probes within the budget and a probe above it
C18_Witness ==
    /\ call = "compress_image"
    /\ pc = "search"
    /\ Cardinality(ProbesInBudget) >= 2
    /\ \E h \in probes : h.buf.len > Budget /\ h.at > best_quality

=============================================================================
